---- MODULE Spec2Model ----
(***************************************************************************)
(* A model of the HTML5 Space Invaders game core: the fixed-timestep loop  *)
(* of SpaceInvaders.Game (init / run / start), the Scene state machine     *)
(* (setState with the enter / exit hooks of the states) and the browser    *)
(* facilities they use (requestAnimationFrame, the keyup listeners, the    *)
(* canvas lookup), the text and sprite entities of the HUD and of the      *)
(* welcome screen, and the score formatting.                               *)
(*                                                                         *)
(* Time is measured in thirds of a millisecond, so that the step           *)
(* 1000/60 ms of the source is the integer 50 and the 100 ms stutter limit *)
(* is 300.  Arithmetic on time is exact; the rounding of IEEE doubles is   *)
(* not modelled.                                                           *)
(*                                                                         *)
(* Every handler is a pure operator from a "world" record (all variables)  *)
(* to the world after the handler returned, so that a handler that calls   *)
(* another one (start -> init -> setState -> enter, start -> run) is the   *)
(* composition of the operators.  The calls a handler makes are appended   *)
(* to `trace` in the order the code makes them.                            *)
(***************************************************************************)
EXTENDS Integers, Sequences, FiniteSets, TLC

VARIABLES
  game,    \* the private fields of the SpaceInvaders.Game closure
  scene,   \* the private fields of the SpaceInvaders.Scene the model follows
  host,    \* the browser: pending frame callbacks, keyup listeners, objects built
  trace,   \* the calls made by the last top-level call, in order
  obs,     \* counters over the whole run (calls of update, enter, exit, ...)
  thrown,  \* the last top-level call ended with an uncaught exception
  ret,     \* the value the last init() returned
  twin,    \* a second SpaceInvaders.Game (a whole world of its own, its call
           \* log not kept), fed another sequence of timestamps
  bench    \* a TextEntity and a SpriteEntity driven directly through their
           \* own interface, and the bookkeeping of the calls made on them

vars == <<game, scene, host, trace, obs, thrown, ret, twin, bench>>

(***************************************************************************)
(* Program constants (time in thirds of a millisecond).                    *)
(***************************************************************************)
FPS == 50
StutterLimit == 300
KEY_1 == 49
KEY_2 == 50

(* The value of a variable that was never assigned (undefined), of a       *)
(* failed DOM lookup (null), and of the objects the lookups return.        *)
NoState == 0
Undefined == "undefined"
Null == "null"
CanvasElement == "canvas"
Context2D == "ctx2d"

(***************************************************************************)
(* Bounds of the model.                                                    *)
(***************************************************************************)
MaxFrames == 5
PairMaxFrames == 3
MaxSetState == 3
NumStates == 2
MaxSceneUpdates == 2
MaxUpdates == 17
PlayMaxFrames == 3
MaxScore == 10100
MaxCalls == 2

(* The gaps between two frame timestamps the host may deliver: equal       *)
(* timestamps, less than a step, exactly a step, several steps, the        *)
(* largest accepted gap, the smallest discarded gap, a long suspension.    *)
Deltas == {0, 20, 50, 130, 299, 300, 500}

(* The gaps used when two games are run side by side. *)
PairDeltas == {25, 50, 100, 300}

(* The gaps used when key events are delivered between the frames: less    *)
(* than a step, exactly a step, several steps, a discarded gap.            *)
PlayDeltas == {20, 50, 130, 300}

(* A keyboard event is the two key-code properties the handler reads; a    *)
(* property the host does not report reads as 0.  The events delivered:    *)
(* the keys "1" and "2", the Enter key, the space bar, and the key "2" of  *)
(* a host that reports the code in `which` only.                           *)
KeyboardEvent(keyCode, which) == [keyCode |-> keyCode, which |-> which]
KeyEvents ==
  {KeyboardEvent(49, 49), KeyboardEvent(50, 50), KeyboardEvent(13, 13),
   KeyboardEvent(32, 32), KeyboardEvent(0, 50)}

(* The blink counts (-1 is the endless blink) and the blink intervals a    *)
(* text entity may be given.                                               *)
BlinkCounts == {-1, 0, 1, 2, 3}
BlinkFrequencies == {1, 2, 5}

(* The values the setters of a sprite entity may be given: the defaults    *)
(* and the geometry of the first row of the score table; image 1 is the    *)
(* sprite sheet, image 0 the undefined image.                              *)
SpriteSettings ==
  {<<"x", 0>>, <<"x", 206>>, <<"y", 0>>, <<"y", 550>>,
   <<"width", 0>>, <<"width", 43>>, <<"height", 0>>, <<"height", 19>>,
   <<"clipX", 0>>, <<"clipX", 5>>, <<"clipY", 0>>, <<"clipY", 92>>,
   <<"image", 0>>, <<"image", 1>>}

(* The score boards (player 1, player 2, hi-score) a game may be given:    *)
(* the initial one, one with short, longer and overlong numbers, one full. *)
ScoreBoards == {<<0, 0, 0>>, <<12, 340, 12345>>, <<9999, 7, 9999>>}

(***************************************************************************)
(* The world record and the log of calls.                                  *)
(***************************************************************************)
World ==
  [game |-> game, scene |-> scene, host |-> host, trace |-> trace,
   obs |-> obs, thrown |-> thrown, ret |-> ret]

(* The world at the beginning of a top-level call. *)
Fresh == [World EXCEPT !.trace = <<>>, !.thrown = FALSE, !.host.draws = <<>>]

Commit(w) ==
  /\ game' = w.game
  /\ scene' = w.scene
  /\ host' = w.host
  /\ trace' = w.trace
  /\ obs' = w.obs
  /\ thrown' = w.thrown
  /\ ret' = w.ret

(* One call, with what isInitialized() answers at the time of the call. *)
Log(w, op, arg) ==
  [w EXCEPT !.trace =
     Append(@, [op |-> op, arg |-> arg, inited |-> w.game.initialized])]

(***************************************************************************)
(* toScoreString: a number is printed in decimal, left-padded with four    *)
(* zeros when it has at most four characters, and cut to its last four     *)
(* characters; anything that is not a number gives "NaN".  A JavaScript    *)
(* value is a record of its typeof and its content: a number is            *)
(* value * 10^exp, where value holds the digits that toString prints (no   *)
(* trailing zero when exp > 0); a string has its characters in text; the   *)
(* other values are told apart by typeof and text.                         *)
(***************************************************************************)
Number(n) == [typeof |-> "number", value |-> n, exp |-> 0, text |-> ""]
NumberE(digits, exp) ==
  [typeof |-> "number", value |-> digits, exp |-> exp, text |-> ""]
JsString(str) == [typeof |-> "string", value |-> 0, exp |-> 0, text |-> str]
JsBoolean(b) ==
  [typeof |-> "boolean", value |-> IF b THEN 1 ELSE 0, exp |-> 0,
   text |-> IF b THEN "true" ELSE "false"]
JsUndefined ==
  [typeof |-> "undefined", value |-> 0, exp |-> 0, text |-> "undefined"]
JsNull == [typeof |-> "object", value |-> 0, exp |-> 0, text |-> "null"]
JsObject ==
  [typeof |-> "object", value |-> 0, exp |-> 0, text |-> "[object Object]"]

Max(a, b) == IF a >= b THEN a ELSE b

Digit(d) == SubSeq("0123456789", d + 1, d + 1)

(* Number.prototype.toString() of an integer. *)
RECURSIVE NumberToString(_)
NumberToString(n) ==
  IF n < 0 THEN "-" \o NumberToString(-n)
  ELSE IF n < 10 THEN Digit(n)
  ELSE NumberToString(n \div 10) \o Digit(n % 10)

RECURSIVE Zeros(_)
Zeros(n) == IF n <= 0 THEN "" ELSE "0" \o Zeros(n - 1)

(* Number.prototype.toString() of a non-negative integer-valued number     *)
(* with k digits followed by exp zeros: decimal notation up to 21 digits,  *)
(* exponential notation (d.ddde+n) from 10^21 on.                          *)
Number_notation(digits, exp) ==
  IF exp = 0 THEN digits
  ELSE IF Len(digits) + exp <= 21 THEN digits \o Zeros(exp)
  ELSE SubSeq(digits, 1, 1)
         \o (IF Len(digits) > 1 THEN "." \o SubSeq(digits, 2, Len(digits))
                                 ELSE "")
         \o "e+" \o NumberToString(Len(digits) + exp - 1)

Number_toString(x) == Number_notation(NumberToString(x.value), x.exp)

(* String.prototype.substring(start): a negative start counts as 0. *)
Substring(str, start) == SubSeq(str, Max(start, 0) + 1, Len(str))

(* The lines after `result = score.toString()`: pad with four zeros when   *)
(* the difference to four characters is not negative, keep the last four.  *)
toScoreString_padAndCut(result) ==
  LET difference == 4 - Len(result)
      padded == IF difference >= 0 THEN "0000" \o result ELSE result
  IN  Substring(padded, Len(padded) - 4)

toScoreString_noPad(score) ==
  IF score.typeof = "number"
  THEN Substring(Number_toString(score), Len(Number_toString(score)) - 4)
  ELSE "NaN"

toScoreString_noTypeCheck(score) ==
  toScoreString_padAndCut(IF score.typeof = "number"
                          THEN Number_toString(score)
                          ELSE score.text)

toScoreString(score) ==
  IF score.typeof = "number"
  THEN toScoreString_padAndCut(Number_toString(score))
  ELSE "NaN"

(***************************************************************************)
(* The drawing surface: the draw calls the last top-level call made on the *)
(* 2D context, in order.  `by` names the layer that issued the call and    *)
(* `ready` tells whether the image had finished loading at that time.      *)
(***************************************************************************)
fillText(w, by, text, x, y) ==
  [w EXCEPT !.host.draws = Append(@,
     [op |-> "fillText", by |-> by, text |-> text, image |-> 0, ready |-> TRUE,
      sx |-> 0, sy |-> 0, sw |-> 0, sh |-> 0,
      dx |-> x, dy |-> y, dw |-> 0, dh |-> 0])]

drawImage(w, by, image, sx, sy, sw, sh, dx, dy, dw, dh) ==
  [w EXCEPT !.host.draws = Append(@,
     [op |-> "drawImage", by |-> by, text |-> "", image |-> image,
      ready |-> image \in w.host.loaded,
      sx |-> sx, sy |-> sy, sw |-> sw, sh |-> sh,
      dx |-> dx, dy |-> dy, dw |-> dw, dh |-> dh])]

(***************************************************************************)
(* SpaceInvaders.SpriteEntity: image 0 is the undefined image.             *)
(***************************************************************************)
NewSpriteEntity ==
  [x |-> 0, y |-> 0, width |-> 0, height |-> 0, clipX |-> 0, clipY |-> 0,
   image |-> 0]

Sprite(image, x, y, width, height, clipX, clipY) ==
  [NewSpriteEntity EXCEPT !.image = image, !.x = x, !.y = y,
     !.width = width, !.height = height, !.clipX = clipX, !.clipY = clipY]

(* setX, setY, setWidth, setHeight, setClipX, setClipY, setImage. *)
SpriteEntity_set(e, field, value) == [e EXCEPT ![field] = value]

SpriteEntity_render_swapRects(w, by, e) ==
  IF e.image # 0
  THEN drawImage(w, by, e.image, e.x, e.y, e.width, e.height,
                 e.clipX, e.clipY, e.width, e.height)
  ELSE w

SpriteEntity_render(w, by, e) ==
  IF e.image # 0
  THEN drawImage(w, by, e.image, e.clipX, e.clipY, e.width, e.height,
                 e.x, e.y, e.width, e.height)
  ELSE w

(***************************************************************************)
(* SpaceInvaders.TextEntity                                                *)
(***************************************************************************)
DEFAULT_BLINK_COUNT == 20
DEFAULT_BLINK_FREQUENCY == 5

NewTextEntity ==
  [x |-> 0, y |-> 0, text |-> "", fillStyle |-> "white",
   font |-> "24pt monospace", align |-> "start", visible |-> TRUE,
   blinkCount |-> DEFAULT_BLINK_COUNT,
   blinkFrequency |-> DEFAULT_BLINK_FREQUENCY,
   blinks |-> 0, blinkTimer |-> 0]

Text(text, align, x, y) ==
  [NewTextEntity EXCEPT !.text = text, !.align = align, !.x = x, !.y = y]

Blinking(e) == e.blinks > 0 \/ e.blinks = -1

TextEntity_update_noClamp(e) ==
  IF Blinking(e)
  THEN LET e1 == [e EXCEPT !.blinkTimer = @ - 1]
       IN  IF e1.blinkTimer = 0
           THEN LET e2 == [e1 EXCEPT !.visible = ~@, !.blinks = @ - 1]
                IN  IF Blinking(e2)
                    THEN [e2 EXCEPT !.blinkTimer = e2.blinkFrequency]
                    ELSE e2
           ELSE e1
  ELSE e

TextEntity_update_noCountdown(e) ==
  IF Blinking(e)
  THEN LET e1 == [e EXCEPT !.blinkTimer = @ - 1]
       IN  IF e1.blinkTimer = 0
           THEN [e1 EXCEPT !.visible = ~@, !.blinkTimer = e1.blinkFrequency]
           ELSE e1
  ELSE e

TextEntity_update(e) ==
  \* check whether the blinking is enabled.
  IF Blinking(e)
  THEN \* decrement the blink timer and toggle when it reaches zero.
       LET e1 == [e EXCEPT !.blinkTimer = @ - 1]
       IN  IF e1.blinkTimer = 0
           THEN LET e2 == [e1 EXCEPT !.visible = ~@,
                                     !.blinks = Max(@ - 1, -1)]
                IN  IF Blinking(e2)
                    THEN [e2 EXCEPT !.blinkTimer = e2.blinkFrequency]
                    ELSE e2
           ELSE e1
  ELSE e

TextEntity_render(w, by, e) ==
  IF e.visible THEN fillText(w, by, e.text, e.x, e.y) ELSE w

TextEntity_blink_noTimer(e) ==
  IF e.visible \/ e.blinks > 0
  THEN [e EXCEPT !.visible = TRUE, !.blinks = e.blinkCount]
  ELSE e

TextEntity_blink_keepHidden(e) ==
  IF e.visible \/ e.blinks > 0
  THEN [e EXCEPT !.blinks = e.blinkCount, !.blinkTimer = e.blinkFrequency]
  ELSE e

TextEntity_blink(e) ==
  IF e.visible \/ e.blinks > 0
  THEN [e EXCEPT !.visible = TRUE, !.blinks = e.blinkCount,
                 !.blinkTimer = e.blinkFrequency]
  ELSE e

TextEntity_setVisible(e, newVisible) == [e EXCEPT !.visible = newVisible]

TextEntity_setText(e, newText) == [e EXCEPT !.text = newText]

TextEntity_setBlinkCount(e, newCount) == [e EXCEPT !.blinkCount = newCount]

TextEntity_setBlinkFrequency(e, newFrequency) ==
  [e EXCEPT !.blinkFrequency = newFrequency]

(***************************************************************************)
(* SpaceInvaders.WelcomeState: the entities of the welcome screen and the  *)
(* hooks of a state.  The objects live in host.stateObjs, by identity.     *)
(***************************************************************************)
(* `new SpaceInvaders.WelcomeState(game)`, image being what                *)
(* game.getSpriteSheet() answers at that time.                             *)
NewWelcomeState(image) ==
  [playText |-> Text("PLAY", "center", 336, 175),
   nameText |-> [Text("HTML5 SPACE INVADERS", "center", 336, 250)
                   EXCEPT !.fillStyle = "#20ff20"],
   singlePlayerText |->
     TextEntity_blink(TextEntity_setBlinkFrequency(TextEntity_setBlinkCount(
       Text("PRESS [1] FOR A 1 PLAYER GAME", "center", 336, 325), -1), 25)),
   multiPlayerText |->
     TextEntity_blink(TextEntity_setBlinkFrequency(TextEntity_setBlinkCount(
       Text("PRESS [2] FOR A 2 PLAYER GAME", "center", 336, 375), -1), 25)),
   controlsText |-> Text("USE ARROW KEYS AND SPACEBAR TO PLAY", "center", 336, 450),
   tableCaptionText |-> Text("-- SCORE ADVANCE TABLE --", "center", 336, 525),
   tableRow1Sprite |-> Sprite(image, 206, 550, 43, 19, 5, 92),
   tableRow1Text |-> Text("= ?  MYSTERY", "start", 259, 570),
   tableRow2Sprite |-> Sprite(image, 216, 585, 24, 24, 5, 63),
   tableRow2Text |-> Text("= 30 POINTS", "start", 259, 607),
   tableRow3Sprite |-> Sprite(image, 211, 620, 33, 24, 5, 34),
   tableRow3Text |-> Text("= 20 POINTS", "start", 259, 642),
   tableRow4Sprite |-> Sprite(image, 211, 655, 36, 24, 5, 5),
   tableRow4Text |-> Text("= 10 POINTS", "start", 259, 677)]

WelcomeState_enter(w, s) ==
  LET w1 == Log(w, "enter", s)
  IN  [w1 EXCEPT !.host.listeners = @ \cup {s}, !.obs.enters = @ + 1]

WelcomeState_exit_keepListener(w, s) ==
  LET w1 == Log(w, "exit", s)
  IN  [w1 EXCEPT !.obs.exits = @ + 1]

WelcomeState_exit(w, s) ==
  LET w1 == Log(w, "exit", s)
  IN  [w1 EXCEPT !.host.listeners = @ \ {s}, !.obs.exits = @ + 1]

(* update and render delegate to the text and sprite entities the state    *)
(* owns; none of them calls back into the scene, the clock or the browser. *)
WelcomeState_update(w, s, dt) ==
  [w EXCEPT !.host.stateObjs[s] =
     [@ EXCEPT !.playText = TextEntity_update(@),
               !.nameText = TextEntity_update(@),
               !.singlePlayerText = TextEntity_update(@),
               !.multiPlayerText = TextEntity_update(@),
               !.controlsText = TextEntity_update(@),
               !.tableCaptionText = TextEntity_update(@)]]

WelcomeState_render(w, s) ==
  LET o == w.host.stateObjs[s]
      w1 == TextEntity_render(w, "state", o.playText)
      w2 == TextEntity_render(w1, "state", o.nameText)
      w3 == TextEntity_render(w2, "state", o.singlePlayerText)
      w4 == TextEntity_render(w3, "state", o.multiPlayerText)
      w5 == TextEntity_render(w4, "state", o.controlsText)
      w6 == TextEntity_render(w5, "state", o.tableCaptionText)
      w7 == SpriteEntity_render(w6, "state", o.tableRow1Sprite)
      w8 == SpriteEntity_render(w7, "state", o.tableRow2Sprite)
      w9 == SpriteEntity_render(w8, "state", o.tableRow3Sprite)
      w10 == SpriteEntity_render(w9, "state", o.tableRow4Sprite)
      w11 == TextEntity_render(w10, "state", o.tableRow1Text)
      w12 == TextEntity_render(w11, "state", o.tableRow2Text)
      w13 == TextEntity_render(w12, "state", o.tableRow3Text)
  IN  TextEntity_render(w13, "state", o.tableRow4Text)

(***************************************************************************)
(* SpaceInvaders.Scene                                                     *)
(***************************************************************************)
NewScene ==
  [state |-> NoState,
   score1Caption |-> Text("SCORE<1>", "center", 125, 40),
   hiScoreCaption |-> Text("HI-SCORE", "center", 336, 40),
   score2Caption |-> Text("SCORE<2>", "center", 542, 40),
   score1Text |-> Text("0000", "center", 125, 75),
   hiScoreText |-> Text("0000", "center", 336, 75),
   score2Text |-> Text("0000", "center", 542, 75)]

Scene_setState_skipSame(w, newState) ==
  LET w0 == Log(w, "setState", newState)
  IN  IF newState = w0.scene.state
      THEN w0
      ELSE LET w1 == IF w0.scene.state # NoState
                     THEN WelcomeState_exit(w0, w0.scene.state)
                     ELSE w0
               w2 == Log([w1 EXCEPT !.scene.state = newState], "assign", newState)
           IN  IF w2.scene.state # NoState
               THEN WelcomeState_enter(w2, w2.scene.state)
               ELSE w2

Scene_setState_enterFirst(w, newState) ==
  LET w0 == Log(w, "setState", newState)
      w1 == IF newState # NoState THEN WelcomeState_enter(w0, newState) ELSE w0
      w2 == IF w1.scene.state # NoState
            THEN WelcomeState_exit(w1, w1.scene.state)
            ELSE w1
  IN  Log([w2 EXCEPT !.scene.state = newState], "assign", newState)

Scene_setState(w, newState) ==
  LET w0 == Log(w, "setState", newState)
      \* exit from the previous state.
      w1 == IF w0.scene.state # NoState
            THEN WelcomeState_exit(w0, w0.scene.state)
            ELSE w0
      \* assign the new state.
      w2 == Log([w1 EXCEPT !.scene.state = newState], "assign", newState)
      \* enter into the new state.
  IN  IF w2.scene.state # NoState
      THEN WelcomeState_enter(w2, w2.scene.state)
      ELSE w2

Scene_refreshHud_keepVisible(w) ==
  [w EXCEPT !.scene =
     [@ EXCEPT
        !.score1Text = TextEntity_update(
           TextEntity_setText(@, toScoreString(Number(w.game.player1Score)))),
        !.score2Text = TextEntity_update(
           TextEntity_setText(@, toScoreString(Number(w.game.player2Score)))),
        !.hiScoreText = TextEntity_update(
           TextEntity_setText(@, toScoreString(Number(w.game.hiScore))))]]

(* The score texts are refreshed from the game, the second score is shown  *)
(* for two players only, and the six HUD entities are updated.             *)
Scene_refreshHud(w) ==
  [w EXCEPT !.scene =
     [@ EXCEPT
        !.score1Text = TextEntity_update(
           TextEntity_setText(@, toScoreString(Number(w.game.player1Score)))),
        !.score2Text = TextEntity_update(
           TextEntity_setVisible(
             TextEntity_setText(@, toScoreString(Number(w.game.player2Score))),
             w.game.playerCount = 2)),
        !.hiScoreText = TextEntity_update(
           TextEntity_setText(@, toScoreString(Number(w.game.hiScore)))),
        !.score1Caption = TextEntity_update(@),
        !.hiScoreCaption = TextEntity_update(@),
        !.score2Caption = TextEntity_update(@)]]

Scene_renderHud(w) ==
  LET w1 == TextEntity_render(w, "hud", w.scene.score1Caption)
      w2 == TextEntity_render(w1, "hud", w.scene.hiScoreCaption)
      w3 == TextEntity_render(w2, "hud", w.scene.score2Caption)
      w4 == TextEntity_render(w3, "hud", w.scene.score1Text)
      w5 == TextEntity_render(w4, "hud", w.scene.hiScoreText)
  IN  TextEntity_render(w5, "hud", w.scene.score2Text)

Scene_update_ifState(w, dt) ==
  LET w0 == Log([w EXCEPT !.obs.updates = @ + 1], "update", dt)
      w1 == Scene_refreshHud(w0)
  IN  IF w1.scene.state = NoState
      THEN w1
      ELSE WelcomeState_update(w1, w1.scene.state, dt)

Scene_render_stateFirst(w) ==
  LET w0 == Log(w, "render", 0)
  IN  IF w0.scene.state = NoState
      THEN [Scene_renderHud(w0) EXCEPT !.thrown = TRUE]
      ELSE Scene_renderHud(WelcomeState_render(w0, w0.scene.state))

(* The last statement of update and of render is the delegation to the     *)
(* live state: state.update(dt) and state.render(ctx) on an undefined or   *)
(* null state are a TypeError.                                             *)
Scene_update(w, dt) ==
  LET w0 == Log([w EXCEPT !.obs.updates = @ + 1], "update", dt)
      w1 == Scene_refreshHud(w0)
  IN  IF w1.scene.state = NoState
      THEN [w1 EXCEPT !.thrown = TRUE]
      ELSE WelcomeState_update(w1, w1.scene.state, dt)

Scene_render(w) ==
  LET w0 == Log(w, "render", 0)
      w1 == Scene_renderHud(w0)
  IN  IF w1.scene.state = NoState
      THEN [w1 EXCEPT !.thrown = TRUE]
      ELSE WelcomeState_render(w1, w1.scene.state)

(***************************************************************************)
(* The browser.                                                            *)
(***************************************************************************)
requestAnimationFrame(w) ==
  Log([w EXCEPT !.host.rafPending = @ + 1], "requestAnimationFrame", 0)

(* ctx.clearRect(...): a TypeError when ctx is undefined or null. *)
clearRect(w) ==
  IF w.game.ctx # Context2D
  THEN [w EXCEPT !.thrown = TRUE]
  ELSE Log(w, "clearRect", 0)

(***************************************************************************)
(* SpaceInvaders.Game                                                      *)
(***************************************************************************)
Return(w, v) == Log([w EXCEPT !.ret = v], "return", IF v THEN 1 ELSE 0)

Game_init_stateAfterFlag(w) ==
  LET w1 == [w EXCEPT !.host.images = @ + 1,
                      !.game.spriteSheet = w.host.images + 1]
      w2 == [w1 EXCEPT !.host.scenes = @ + 1,
                       !.game.scene = w.host.scenes + 1,
                       !.scene = NewScene]
      w3 == [w2 EXCEPT !.host.states = @ + 1,
                       !.host.stateObjs =
                          Append(@, NewWelcomeState(w2.game.spriteSheet)),
                       !.game.initialized = TRUE]
      w4 == Scene_setState(w3, w3.host.states)
  IN  Return(w4, TRUE)

(* What init does once the canvas and its 2D context were obtained. *)
Game_init_build(w) ==
  LET \* spriteSheet = new Image(); spriteSheet.src = ...
      w1 == [w EXCEPT !.host.images = @ + 1,
                      !.game.spriteSheet = w.host.images + 1]
      \* scene = new SpaceInvaders.Scene(this);
      w2 == [w1 EXCEPT !.host.scenes = @ + 1,
                       !.game.scene = w.host.scenes + 1,
                       !.scene = NewScene]
      \* scene.setState(new SpaceInvaders.WelcomeState(this));
      w3 == [w2 EXCEPT !.host.states = @ + 1,
                       !.host.stateObjs =
                          Append(@, NewWelcomeState(w2.game.spriteSheet))]
      w4 == Scene_setState(w3, w3.host.states)
      w5 == [w4 EXCEPT !.game.initialized = TRUE]
  IN  Return(w5, TRUE)

Game_init_noGuard(w, canvasFound, ctxOk) ==
  LET w0 == Log(w, "init", 0)
      w1 == Log([w0 EXCEPT !.game.canvas =
                   IF canvasFound THEN CanvasElement ELSE Null],
                "getElementById", IF canvasFound THEN 1 ELSE 0)
      w2 == Log([w1 EXCEPT !.game.ctx =
                   IF ctxOk THEN Context2D ELSE Null],
                "getContext", IF ctxOk THEN 1 ELSE 0)
  IN  IF ~canvasFound THEN Return(w1, FALSE)
      ELSE IF ~ctxOk THEN Return(w2, FALSE)
      ELSE Game_init_build(w2)

Game_init(w, canvasFound, ctxOk) ==
  LET w0 == Log(w, "init", 0)
      \* canvas = document.getElementById(CANVAS_ID)
      w1 == Log([w0 EXCEPT !.game.canvas =
                   IF canvasFound THEN CanvasElement ELSE Null],
                "getElementById", IF canvasFound THEN 1 ELSE 0)
      \* ctx = canvas.getContext("2d")
      w2 == Log([w1 EXCEPT !.game.ctx =
                   IF ctxOk THEN Context2D ELSE Null],
                "getContext", IF ctxOk THEN 1 ELSE 0)
  IN  IF w0.game.initialized THEN Return(w0, FALSE)
      ELSE IF ~canvasFound THEN Return(w1, FALSE)
      ELSE IF ~ctxOk THEN Return(w2, FALSE)
      ELSE Game_init_build(w2)

(* scene.update(dt) / scene.render(ctx) as the game calls them: a TypeError *)
(* when the game has no scene yet.                                          *)
Game_scene_update(w, dt) ==
  IF w.game.scene = 0 THEN [w EXCEPT !.thrown = TRUE] ELSE Scene_update(w, dt)

Game_scene_render(w) ==
  IF w.game.scene = 0 THEN [w EXCEPT !.thrown = TRUE] ELSE Scene_render(w)

Drain_once(w) ==
  IF w.thrown \/ w.game.deltaAccumulator < FPS
  THEN w
  ELSE LET w1 == Game_scene_update(w, FPS)
       IN  IF w1.thrown
           THEN w1
           ELSE [w1 EXCEPT !.game.deltaAccumulator = @ - FPS]

(* while (deltaAccumulator >= FPS) { scene.update(FPS); deltaAccumulator -= FPS; } *)
RECURSIVE Drain(_)
Drain(w) ==
  IF w.thrown \/ w.game.deltaAccumulator < FPS
  THEN w
  ELSE LET w1 == Game_scene_update(w, FPS)
       IN  IF w1.thrown
           THEN w1
           ELSE Drain([w1 EXCEPT !.game.deltaAccumulator = @ - FPS])

(* clearRect and render, unless an exception is on its way up. *)
ClearAndRender(w) ==
  LET w1 == IF w.thrown THEN w ELSE clearRect(w)
  IN  IF w1.thrown THEN w1 ELSE Game_scene_render(w1)

RECURSIVE DrainRendering(_)
DrainRendering(w) ==
  IF w.thrown \/ w.game.deltaAccumulator < FPS
  THEN w
  ELSE LET w1 == Game_scene_update(w, FPS)
       IN  IF w1.thrown
           THEN w1
           ELSE DrainRendering(
                  ClearAndRender([w1 EXCEPT !.game.deltaAccumulator = @ - FPS]))

Game_run_frame_renderEachStep(w, dt) ==
  LET w1 == [w EXCEPT !.game.deltaAccumulator = @ + dt]
  IN  IF w1.game.deltaAccumulator < FPS
      THEN ClearAndRender(w1)
      ELSE DrainRendering(w1)

Game_run_frame_variableStep(w, dt) ==
  ClearAndRender(IF dt > 0 THEN Game_scene_update(w, dt) ELSE w)

Game_run_frame_renderFirst(w, dt) ==
  Drain(ClearAndRender([w EXCEPT !.game.deltaAccumulator = @ + dt]))

(* The body of `if (dt < 100)`. *)
Game_run_frame(w, dt) ==
  ClearAndRender(Drain([w EXCEPT !.game.deltaAccumulator = @ + dt]))

Game_run_limitOffByOne(w, tickTime) ==
  LET dt == tickTime - w.game.previousTickTime
      w0 == Log(w, "run", tickTime)
      w1 == [w0 EXCEPT !.game.previousTickTime = tickTime, !.obs.dt = dt]
      w2 == IF dt <= StutterLimit THEN Game_run_frame(w1, dt) ELSE w1
  IN  IF w2.thrown THEN w2 ELSE requestAnimationFrame(w2)

Game_run_rescheduleInsideIf(w, tickTime) ==
  LET dt == tickTime - w.game.previousTickTime
      w0 == Log(w, "run", tickTime)
      w1 == [w0 EXCEPT !.game.previousTickTime = tickTime, !.obs.dt = dt]
  IN  IF dt < StutterLimit
      THEN LET w2 == Game_run_frame(w1, dt)
           IN  IF w2.thrown THEN w2 ELSE requestAnimationFrame(w2)
      ELSE w1

Game_run_noStutterGuard(w, tickTime) ==
  LET dt == tickTime - w.game.previousTickTime
      w0 == Log(w, "run", tickTime)
      w1 == [w0 EXCEPT !.game.previousTickTime = tickTime, !.obs.dt = dt]
      w2 == Game_run_frame(w1, dt)
  IN  IF w2.thrown THEN w2 ELSE requestAnimationFrame(w2)

Game_run_clockInsideIf(w, tickTime) ==
  LET dt == tickTime - w.game.previousTickTime
      w0 == Log(w, "run", tickTime)
      w1 == [w0 EXCEPT !.obs.dt = dt]
      w2 == IF dt < StutterLimit
            THEN Game_run_frame([w1 EXCEPT !.game.previousTickTime = tickTime],
                                dt)
            ELSE w1
  IN  IF w2.thrown THEN w2 ELSE requestAnimationFrame(w2)

Game_run(w, tickTime) ==
  LET \* calculate a delta time and store the current tick time.
      dt == tickTime - w.game.previousTickTime
      w0 == Log(w, "run", tickTime)
      w1 == [w0 EXCEPT !.game.previousTickTime = tickTime, !.obs.dt = dt]
      \* update and draw the scene only when we have reasonable delta.
      w2 == IF dt < StutterLimit THEN Game_run_frame(w1, dt) ELSE w1
      \* perform a main loop iteration.
  IN  IF w2.thrown THEN w2 ELSE requestAnimationFrame(w2)

Game_start_unconditional(w, canvasFound, ctxOk) ==
  LET w0 == Log(w, "start", 0)
      w1 == Game_init(w0, canvasFound, ctxOk)
  IN  Game_run(w1, 0)

Game_start(w, canvasFound, ctxOk) ==
  LET w0 == Log(w, "start", 0)
      w1 == Game_init(w0, canvasFound, ctxOk)
  IN  IF w1.ret THEN Game_run(w1, 0) ELSE w1

(***************************************************************************)
(* Bookkeeping of the callbacks seen so far: the current sequence of       *)
(* callbacks with constant spacing (its spacing S, its length K, the       *)
(* accumulator a0 it started with, the updates N it made), how many        *)
(* frames were discarded and the time they spanned.                        *)
(***************************************************************************)
ObserveRun(before, after) ==
  LET dt == after.obs.dt
      n == after.obs.updates - before.obs.updates
      cont == before.obs.seqK > 0 /\ before.obs.seqS = dt
  IN  [after EXCEPT
        !.obs.runs = @ + 1,
        !.obs.seqS = dt,
        !.obs.seqK = IF cont THEN @ + 1 ELSE 1,
        !.obs.seqA0 = IF cont THEN @ ELSE before.game.deltaAccumulator,
        !.obs.seqN = IF cont THEN @ + n ELSE n,
        !.obs.discards = @ + (IF dt >= StutterLimit THEN 1 ELSE 0),
        !.obs.skipped = @ + (IF dt >= StutterLimit THEN dt ELSE 0)]

(***************************************************************************)
(* The initial state: `new SpaceInvaders.Game()`.                          *)
(***************************************************************************)
NewGame ==
  [initialized |-> FALSE, canvas |-> Undefined, ctx |-> Undefined,
   scene |-> 0, previousTickTime |-> 0, deltaAccumulator |-> 0,
   player1Score |-> 0, player2Score |-> 0, hiScore |-> 0,
   playerCount |-> 2, spriteSheet |-> 0]

NewHost ==
  [rafPending |-> 0, listeners |-> {}, images |-> 0, scenes |-> 0, states |-> 0,
   stateObjs |-> <<>>, loaded |-> {}, draws |-> <<>>, event |-> <<>>]

(* The entities on the bench, as their constructors leave them, and the    *)
(* bookkeeping: the last call made, the entity before it, whether the last *)
(* blink() found the entity visible and only update calls followed it      *)
(* (clean), the update calls and the toggles since then (counted up to     *)
(* MaxUpdates), whether only blink and update calls were made at all       *)
(* (pure), and whether setBlinkFrequency was ever called during a blink.   *)
NewBench ==
  [text |-> NewTextEntity, sprite |-> NewSpriteEntity,
   last |-> "new", prev |-> NewTextEntity,
   since |-> 0, toggles |-> 0, clean |-> FALSE, pure |-> TRUE,
   retuned |-> FALSE]

NewObs ==
  [frames |-> 0, runs |-> 0, updates |-> 0, enters |-> 0, exits |-> 0,
   setStates |-> 0, replaced |-> 0, dt |-> 0, discards |-> 0,
   seqS |-> 0, seqK |-> 0, seqA0 |-> 0, seqN |-> 0, skipped |-> 0]

Init ==
  /\ game = NewGame
  /\ scene = NewScene
  /\ host = NewHost
  /\ trace = <<>>
  /\ obs = NewObs
  /\ thrown = FALSE
  /\ ret = FALSE
  /\ twin = [game |-> NewGame, scene |-> NewScene, host |-> NewHost,
             trace |-> <<>>, obs |-> NewObs, thrown |-> FALSE, ret |-> FALSE]
  /\ bench = NewBench

(***************************************************************************)
(* The top-level calls of the game-driven program.                         *)
(***************************************************************************)
(* game.start(), with the canvas present or not in the document. *)
StartStep(w, canvasFound, ctxOk) ==
  LET w0 == [w EXCEPT !.trace = <<>>, !.thrown = FALSE, !.host.draws = <<>>]
      w1 == Game_start(w0, canvasFound, ctxOk)
  IN  IF w1.ret THEN ObserveRun(w0, w1) ELSE w1

(* The host delivers a pending frame callback: run(tickTime), d after the *)
(* previous timestamp.                                                     *)
FrameStep(w, d) ==
  LET w0 == [w EXCEPT !.trace = <<>>, !.thrown = FALSE, !.host.draws = <<>>,
                      !.host.rafPending = @ - 1, !.obs.frames = @ + 1]
  IN  ObserveRun(w0, Game_run(w0, w.game.previousTickTime + d))

Start ==
  /\ \E canvasFound, ctxOk \in BOOLEAN :
       Commit(StartStep(World, canvasFound, ctxOk))
  /\ UNCHANGED <<twin, bench>>

(* game.init() called directly. *)
InitCall ==
  /\ \E canvasFound, ctxOk \in BOOLEAN :
       Commit(Game_init(Fresh, canvasFound, ctxOk))
  /\ UNCHANGED <<twin, bench>>

Frame ==
  /\ host.rafPending > 0
  /\ obs.frames < MaxFrames
  /\ \E d \in Deltas : Commit(FrameStep(World, d))
  /\ UNCHANGED <<twin, bench>>

(* The host finished loading an image: its load event. *)
ImageLoaded ==
  /\ \E i \in (1..host.images) \ host.loaded :
       Commit(Log([Fresh EXCEPT !.host.loaded = @ \cup {i}], "load", i))
  /\ UNCHANGED <<twin, bench>>

Next == Start \/ InitCall \/ Frame \/ ImageLoaded

Spec == Init /\ [][Next]_vars

(***************************************************************************)
(* Two games side by side, each fed its own sequence of timestamps.        *)
(***************************************************************************)
PairFrame ==
  /\ host.rafPending > 0
  /\ obs.frames < PairMaxFrames
  /\ \E d \in PairDeltas : Commit(FrameStep(World, d))
  /\ UNCHANGED <<twin, bench>>

TwinStart ==
  /\ \E canvasFound, ctxOk \in BOOLEAN :
       twin' = [StartStep(twin, canvasFound, ctxOk) EXCEPT
                  !.trace = <<>>, !.host.draws = <<>>]
  /\ UNCHANGED <<game, scene, host, trace, obs, thrown, ret, bench>>

TwinFrame ==
  /\ twin.host.rafPending > 0
  /\ twin.obs.frames < PairMaxFrames
  /\ \E d \in PairDeltas :
       twin' = [FrameStep(twin, d) EXCEPT !.trace = <<>>, !.host.draws = <<>>]
  /\ UNCHANGED <<game, scene, host, trace, obs, thrown, ret, bench>>

NextPair == Start \/ PairFrame \/ TwinStart \/ TwinFrame

SpecPair == Init /\ [][NextPair]_vars

(***************************************************************************)
(* A Scene driven directly through its own interface:                      *)
(* `new SpaceInvaders.Scene(game)` on a game that was not initialized, and *)
(* then any sequence of setState calls over NumStates WelcomeState         *)
(* instances and the empty value, of update and render calls, and of calls *)
(* of the setters of the game.                                             *)
(***************************************************************************)
InitScene ==
  /\ game = NewGame
  /\ scene = NewScene
  /\ host = [NewHost EXCEPT
               !.scenes = 1,
               !.states = NumStates,
               !.stateObjs = [s \in 1..NumStates |->
                                NewWelcomeState(NewGame.spriteSheet)]]
  /\ trace = <<>>
  /\ obs = NewObs
  /\ thrown = FALSE
  /\ ret = FALSE
  /\ twin = [game |-> NewGame, scene |-> NewScene, host |-> NewHost,
             trace |-> <<>>, obs |-> NewObs, thrown |-> FALSE, ret |-> FALSE]
  /\ bench = NewBench

SetState ==
  /\ obs.setStates < MaxSetState
  /\ \E s \in 0..NumStates :
       LET w0 == [Fresh EXCEPT
                    !.obs.setStates = @ + 1,
                    !.obs.replaced = @ + (IF scene.state # NoState THEN 1 ELSE 0)]
       IN  Commit(Scene_setState(w0, s))
  /\ UNCHANGED <<twin, bench>>

(* scene.update(dt) called directly. *)
SceneUpdate ==
  /\ obs.updates < MaxSceneUpdates
  /\ Commit(Scene_update(Fresh, FPS))
  /\ UNCHANGED <<twin, bench>>

(* scene.render(ctx) called directly, on a context of its own. *)
SceneRender ==
  /\ Commit(Scene_render(Fresh))
  /\ UNCHANGED <<twin, bench>>

Game_setPlayerCount(w, newCount) ==
  Log([w EXCEPT !.game.playerCount = newCount], "setPlayerCount", newCount)

Game_setScores(w, board) ==
  Log([w EXCEPT !.game.player1Score = board[1],
                !.game.player2Score = board[2],
                !.game.hiScore = board[3]], "setScores", board[1])

SetPlayerCount ==
  /\ \E n \in {1, 2} : Commit(Game_setPlayerCount(Fresh, n))
  /\ UNCHANGED <<twin, bench>>

SetScores ==
  /\ \E board \in ScoreBoards : Commit(Game_setScores(Fresh, board))
  /\ UNCHANGED <<twin, bench>>

NextScene ==
  SetState \/ SceneUpdate \/ SceneRender \/ SetPlayerCount \/ SetScores

SpecScene == InitScene /\ [][NextScene]_vars

(***************************************************************************)
(* toScoreString called on one argument, again and again, while the        *)
(* scores of the game change in between.  The arguments: every integer up  *)
(* to MaxScore, larger integers (each one a number that JavaScript holds   *)
(* exactly: 99999, 123456, 2^31 - 1, 10^15, 9 * 10^15, 12345 * 10^16,      *)
(* 10^21, 15 * 10^20, 125 * 10^19, 10^22), and values that are not         *)
(* numbers.  bench holds the argument, the last result, the number of      *)
(* calls made (counted up to MaxCalls) and whether all of them returned    *)
(* the same string.                                                        *)
(***************************************************************************)
LargeScores ==
  {Number(99999), Number(123456), Number(2147483647),
   NumberE(1, 15), NumberE(9, 15), NumberE(12345, 16),
   NumberE(1, 21), NumberE(15, 20), NumberE(125, 19), NumberE(1, 22)}

NonNumbers ==
  {JsString(""), JsString("12"), JsString("abcde"), JsUndefined, JsNull,
   JsObject, JsBoolean(TRUE), JsBoolean(FALSE)}

ScoreInputs == {Number(n) : n \in 0..MaxScore} \cup LargeScores \cup NonNumbers

InitScore ==
  /\ game = NewGame
  /\ scene = NewScene
  /\ host = NewHost
  /\ trace = <<>>
  /\ obs = NewObs
  /\ thrown = FALSE
  /\ ret = FALSE
  /\ twin = [game |-> NewGame, scene |-> NewScene, host |-> NewHost,
             trace |-> <<>>, obs |-> NewObs, thrown |-> FALSE, ret |-> FALSE]
  /\ bench \in {[input |-> v, result |-> "", calls |-> 0, same |-> TRUE] :
                  v \in ScoreInputs}

ScoreCall ==
  /\ bench' = [bench EXCEPT
                 !.result = toScoreString(bench.input),
                 !.calls = IF @ < MaxCalls THEN @ + 1 ELSE @,
                 !.same = /\ @
                          /\ (bench.calls > 0 =>
                                toScoreString(bench.input) = bench.result)]
  /\ UNCHANGED <<game, scene, host, trace, obs, thrown, ret, twin>>

NextScore == ScoreCall \/ SetScores

SpecScore == InitScore /\ [][NextScore]_vars

(***************************************************************************)
(* Key events.  The handler of a welcome state reads the event of the      *)
(* host (window.event, set by the host while it dispatches an event and    *)
(* undefined otherwise: host.event is <<>> or holds the one event), never  *)
(* its own parameter; reading a property of an event that is not there     *)
(* throws.                                                                 *)
(***************************************************************************)
WelcomeState_keyUp_swapped(w, s, e) ==
  LET w1 == Log(w, "keyUp", s)
      key == IF w.host.event[1].keyCode # 0 THEN w.host.event[1].keyCode
                                            ELSE w.host.event[1].which
  IN  IF w.host.event = <<>> THEN [w1 EXCEPT !.thrown = TRUE]
      ELSE CASE key = KEY_1 -> Game_setPlayerCount(w1, 2)
             [] key = KEY_2 -> Game_setPlayerCount(w1, 1)
             [] OTHER -> w1

WelcomeState_keyUp_leaves(w, s, e) ==
  LET w1 == Log(w, "keyUp", s)
      key == IF w.host.event[1].keyCode # 0 THEN w.host.event[1].keyCode
                                            ELSE w.host.event[1].which
  IN  IF w.host.event = <<>> THEN [w1 EXCEPT !.thrown = TRUE]
      ELSE CASE key = KEY_1 ->
                  Scene_setState(Game_setPlayerCount(w1, 1), NoState)
             [] key = KEY_2 ->
                  Scene_setState(Game_setPlayerCount(w1, 2), NoState)
             [] OTHER -> w1

WelcomeState_keyUp(w, s, e) ==
  LET w1 == Log(w, "keyUp", s)
      key == IF w.host.event[1].keyCode # 0 THEN w.host.event[1].keyCode
                                            ELSE w.host.event[1].which
  IN  IF w.host.event = <<>> THEN [w1 EXCEPT !.thrown = TRUE]
      ELSE CASE key = KEY_1 -> Game_setPlayerCount(w1, 1)
             [] key = KEY_2 -> Game_setPlayerCount(w1, 2)
             [] OTHER -> w1

(* The host calls the keyup listeners of the document, in the order of the *)
(* state numbers, with the event as the argument.                          *)
RECURSIVE Document_callListeners(_, _, _)
Document_callListeners(w, listeners, e) ==
  IF listeners = {} THEN w
  ELSE LET s == CHOOSE x \in listeners : \A y \in listeners : x <= y
       IN  Document_callListeners(WelcomeState_keyUp(w, s, e),
                                  listeners \ {s}, e)

(* A key is released: the host makes the event the current one, calls the  *)
(* listeners registered at that moment and clears the current event.  The  *)
(* two logged calls carry the two properties of the event.                 *)
Document_keyup(w, e) ==
  LET w1 == Log(Log(w, "keyup", e.keyCode), "which", e.which)
      w2 == [w1 EXCEPT !.host.event = <<e>>]
      w3 == Document_callListeners(w2, w2.host.listeners, e)
  IN  [w3 EXCEPT !.host.event = <<>>]

KeyUp ==
  /\ \E e \in KeyEvents : Commit(Document_keyup(Fresh, e))
  /\ UNCHANGED <<twin, bench>>

(* The game with key events delivered between its frame callbacks. *)
PlayFrame ==
  /\ host.rafPending > 0
  /\ obs.frames < PlayMaxFrames
  /\ \E d \in PlayDeltas : Commit(FrameStep(World, d))
  /\ UNCHANGED <<twin, bench>>

NextPlay == Start \/ PlayFrame \/ KeyUp

SpecPlay == Init /\ [][NextPlay]_vars

(* The scene with states set and cleared, and key events in between. *)
NextKeys == SetState \/ KeyUp

SpecKeys == InitScene /\ [][NextKeys]_vars

(***************************************************************************)
(* A TextEntity driven directly through its own interface: constructed,    *)
(* given a blink count and a blink interval (as WelcomeState does for its  *)
(* blinking texts), and then any sequence of update, blink, setVisible,    *)
(* setBlinkCount and setBlinkFrequency calls.                              *)
(***************************************************************************)
InitText ==
  /\ game = NewGame
  /\ scene = NewScene
  /\ host = NewHost
  /\ trace = <<>>
  /\ obs = NewObs
  /\ thrown = FALSE
  /\ ret = FALSE
  /\ twin = [game |-> NewGame, scene |-> NewScene, host |-> NewHost,
             trace |-> <<>>, obs |-> NewObs, thrown |-> FALSE, ret |-> FALSE]
  /\ \E n \in BlinkCounts, f \in BlinkFrequencies :
       LET e == TextEntity_setBlinkFrequency(
                  TextEntity_setBlinkCount(NewTextEntity, n), f)
       IN  bench = [NewBench EXCEPT !.text = e, !.prev = e]

TextUpdate ==
  /\ LET e == bench.text
         e2 == TextEntity_update(e)
         counting == bench.clean /\ bench.since < MaxUpdates
     IN  bench' = [bench EXCEPT
           !.text = e2, !.prev = e, !.last = "update",
           !.since = IF counting THEN @ + 1 ELSE @,
           !.toggles = IF counting /\ e2.visible # e.visible THEN @ + 1 ELSE @]
  /\ UNCHANGED <<game, scene, host, trace, obs, thrown, ret, twin>>

TextBlink ==
  /\ LET e == bench.text
     IN  bench' = [bench EXCEPT
           !.text = TextEntity_blink(e), !.prev = e, !.last = "blink",
           !.clean = e.visible, !.since = 0, !.toggles = 0]
  /\ UNCHANGED <<game, scene, host, trace, obs, thrown, ret, twin>>

(* A call of one of the setters: the counting stops. *)
TextSet(e2, op) ==
  /\ bench' = [bench EXCEPT
       !.text = e2, !.prev = bench.text, !.last = op,
       !.clean = FALSE, !.pure = FALSE, !.since = 0, !.toggles = 0,
       !.retuned = @ \/ (op = "setBlinkFrequency" /\ Blinking(bench.text))]
  /\ UNCHANGED <<game, scene, host, trace, obs, thrown, ret, twin>>

TextSetVisible ==
  \E b \in BOOLEAN : TextSet(TextEntity_setVisible(bench.text, b), "setVisible")

TextSetBlinkCount ==
  \E n \in BlinkCounts :
    TextSet(TextEntity_setBlinkCount(bench.text, n), "setBlinkCount")

TextSetBlinkFrequency ==
  \E f \in BlinkFrequencies :
    TextSet(TextEntity_setBlinkFrequency(bench.text, f), "setBlinkFrequency")

NextText ==
  \/ TextUpdate
  \/ TextBlink
  \/ TextSetVisible
  \/ TextSetBlinkCount
  \/ TextSetBlinkFrequency

SpecText == InitText /\ [][NextText]_vars

(* blink() once on the entity as configured, and update calls without end: *)
(* the loop of the game calls update on every step for as long as it runs. *)
TextBlinkOnce ==
  /\ bench.last = "new"
  /\ TextBlink

NextBlink == TextBlinkOnce \/ TextUpdate

SpecBlink == InitText /\ [][NextBlink]_vars /\ WF_vars(TextUpdate)

(***************************************************************************)
(* A SpriteEntity driven directly through its own interface, next to the   *)
(* sprite sheet image the host is loading: any sequence of setter calls    *)
(* and render calls, each render on a context of its own.                  *)
(***************************************************************************)
InitSprite ==
  /\ game = NewGame
  /\ scene = NewScene
  /\ host = [NewHost EXCEPT !.images = 1]
  /\ trace = <<>>
  /\ obs = NewObs
  /\ thrown = FALSE
  /\ ret = FALSE
  /\ twin = [game |-> NewGame, scene |-> NewScene, host |-> NewHost,
             trace |-> <<>>, obs |-> NewObs, thrown |-> FALSE, ret |-> FALSE]
  /\ bench = NewBench

SpriteSet ==
  /\ \E setting \in SpriteSettings :
       /\ bench' = [bench EXCEPT
            !.sprite = SpriteEntity_set(@, setting[1], setting[2])]
       /\ Commit(Log(Fresh, "sprite.set", setting[2]))
  /\ UNCHANGED twin

SpriteRender ==
  /\ Commit(SpriteEntity_render(Log(Fresh, "sprite.render", 0),
                                "bench", bench.sprite))
  /\ UNCHANGED <<twin, bench>>

NextSprite == SpriteSet \/ SpriteRender \/ ImageLoaded

SpecSprite == InitSprite /\ [][NextSprite]_vars

(***************************************************************************)
(* Reading the log of calls.                                               *)
(***************************************************************************)
(* The calls of a log, without the isInitialized() column. *)
Calls(tr) == [i \in DOMAIN tr |-> <<tr[i].op, tr[i].arg>>]

Count(tr, op) == Cardinality({i \in DOMAIN tr : tr[i].op = op})

(* The last top-level call was the given one. *)
LastCall(op) == trace # <<>> /\ trace[1].op = op

(* The last top-level call invoked run (a frame callback, or a start()   *)
(* whose init() succeeded); RunSegment is what run did, from its entry.  *)
HasRun == \E i \in DOMAIN trace : trace[i].op = "run"

RunIndex == CHOOSE i \in DOMAIN trace : trace[i].op = "run"

RunSegment == SubSeq(trace, RunIndex, Len(trace))

RunOps == [i \in DOMAIN RunSegment |-> RunSegment[i].op]

Repeat(x, n) == [i \in 1..n |-> x]

(***************************************************************************)
(* C1.  Stutter guard: a run callback with dt >= 100 ms performs no        *)
(* scene.update, no clear of the draw surface and no scene.render.         *)
(***************************************************************************)
C1_StutterGuard ==
  (HasRun /\ obs.dt >= StutterLimit) =>
    /\ Count(RunSegment, "update") = 0
    /\ Count(RunSegment, "clearRect") = 0
    /\ Count(RunSegment, "render") = 0

(* A frame callback of the running loop that was discarded. *)
C1_Witness ==
  /\ HasRun
  /\ game.initialized
  /\ obs.dt >= StutterLimit
  /\ obs.frames >= 2

(***************************************************************************)
(* C2.  Within one run callback with dt < 100 ms the calls are: every      *)
(* scene.update that is due (none is left due afterwards), then the clear  *)
(* of the surface, then exactly one scene.render; render never comes       *)
(* between two updates.                                                    *)
(***************************************************************************)
C2_UpdatesThenClearThenRender ==
  (HasRun /\ obs.dt < StutterLimit) =>
    LET n == Count(RunSegment, "update")
    IN  /\ RunOps = <<"run">> \o Repeat("update", n)
                     \o <<"clearRect", "render", "requestAnimationFrame">>
        /\ game.deltaAccumulator < FPS

(* A callback that drained several steps before its single render. *)
C2_Witness ==
  /\ HasRun
  /\ obs.dt < StutterLimit
  /\ Count(RunSegment, "update") >= 3
  /\ Count(RunSegment, "render") = 1

C5_AlwaysReschedules ==
  /\ (HasRun /\ ~thrown) =>
       /\ Count(RunSegment, "requestAnimationFrame") = 1
       /\ RunOps[Len(RunOps)] = "requestAnimationFrame"
  /\ obs.runs > 0 => host.rafPending = 1

(* A discarded frame, after which a callback is pending again. *)
C5_Witness ==
  /\ HasRun
  /\ LastCall("run")
  /\ obs.dt >= StutterLimit
  /\ host.rafPending = 1

(***************************************************************************)
(* C8.  init() returns true exactly when the game was not initialized and  *)
(* the canvas and its 2D context were obtained; on an initialized game it  *)
(* changes nothing; a failed init leaves isInitialized() as it was.        *)
(***************************************************************************)
C8_InitStep ==
  (trace' # <<>> /\ trace'[1].op = "init") =>
    LET canvasOk == \E i \in DOMAIN trace' :
                      trace'[i].op = "getElementById" /\ trace'[i].arg = 1
        ctxOk == \E i \in DOMAIN trace' :
                   trace'[i].op = "getContext" /\ trace'[i].arg = 1
    IN  /\ ret' = (~game.initialized /\ canvasOk /\ ctxOk)
        /\ trace'[Len(trace')] = [op |-> "return", arg |-> IF ret' THEN 1 ELSE 0,
                                  inited |-> game'.initialized]
        /\ game.initialized =>
             /\ game' = game
             /\ scene' = scene
             /\ host' = [host EXCEPT !.draws = <<>>]
        /\ game'.initialized = (game.initialized \/ ret')

C8_InitResult == [][C8_InitStep]_vars

(* init() on a game whose loop is running: refused, nothing rebuilt. *)
C8_Witness ==
  /\ LastCall("init")
  /\ trace[1].inited
  /\ ret = FALSE
  /\ host.rafPending = 1
  /\ host.scenes = 1

(***************************************************************************)
(* C9.  start() calls run (and so schedules a frame callback) exactly when *)
(* its own init() returned true; otherwise it updates nothing, renders     *)
(* nothing and schedules nothing.                                          *)
(***************************************************************************)
C9_StartDeclines ==
  LastCall("start") =>
    /\ HasRun <=> ret
    /\ ~ret =>
         /\ Count(trace, "update") = 0
         /\ Count(trace, "clearRect") = 0
         /\ Count(trace, "render") = 0
         /\ Count(trace, "requestAnimationFrame") = 0

(* start() with no canvas in the document. *)
C9_Witness ==
  /\ LastCall("start")
  /\ ~ret
  /\ game.canvas = Null
  /\ host.rafPending = 0

(***************************************************************************)
(* C10 as stated.  The Welcome state is the live state of an initialized   *)
(* game, it was entered exactly once, and isInitialized() was already true *)
(* when Scene.setState assigned it and ran its enter() hook.               *)
(***************************************************************************)
C10_AssignedAfterInitialized ==
  /\ game.initialized => (scene.state = 1 /\ obs.enters = 1)
  /\ \A i \in DOMAIN trace :
       trace[i].op \in {"setState", "assign", "enter"} => trace[i].inited

(***************************************************************************)
(* C10 amended.  The Welcome state is assigned inside the init() that      *)
(* succeeds, before the initialized flag is set: it is entered exactly     *)
(* once in a game that is initialized and never in one that is not, it is  *)
(* never exited, isInitialized() is still false when setState and enter()  *)
(* run, and they run before init returns true and before any run.          *)
(***************************************************************************)
C10_AssignedDuringInit ==
  /\ obs.enters = (IF game.initialized THEN 1 ELSE 0)
  /\ obs.exits = 0
  /\ game.initialized => (scene.state = 1 /\ host.listeners = {1})
  /\ ~game.initialized => (scene.state = NoState /\ host.listeners = {})
  /\ \A i \in DOMAIN trace :
       trace[i].op \in {"setState", "assign", "enter"} =>
         /\ ~trace[i].inited
         /\ trace[i].arg = 1
         /\ \E j \in DOMAIN trace :
              j > i /\ trace[j].op = "return" /\ trace[j].arg = 1
         /\ \A j \in DOMAIN trace : trace[j].op = "run" => j > i

(* start() has just initialized the game and entered the loop. *)
C10_Witness ==
  /\ LastCall("start")
  /\ game.initialized
  /\ Count(trace, "enter") = 1
  /\ HasRun

(***************************************************************************)
(* C6.  Every Scene.setState(next) calls, in this order, exit() of the     *)
(* state that was live (if one was), assigns next, and calls enter() of    *)
(* next (if it is not empty); the exit() calls made so far are as many as  *)
(* the calls that replaced a live state.                                   *)
(***************************************************************************)
C6_SetStateStep ==
  (trace' # <<>> /\ trace'[1].op = "setState") =>
    LET old == scene.state
        new == trace'[1].arg
    IN  /\ Calls(trace') =
               <<  <<"setState", new>>  >>
               \o (IF old # NoState THEN <<  <<"exit", old>>  >> ELSE <<>>)
               \o <<  <<"assign", new>>  >>
               \o (IF new # NoState THEN <<  <<"enter", new>>  >> ELSE <<>>)
        /\ scene'.state = new
        /\ obs'.exits = obs.exits + (IF old # NoState THEN 1 ELSE 0)
        /\ obs'.enters = obs.enters + (IF new # NoState THEN 1 ELSE 0)

C6_SetStateOrder == [](obs.exits = obs.replaced) /\ [][C6_SetStateStep]_vars

(* A live state replaced by another one: exit of the old, enter of the new. *)
C6_Witness ==
  /\ LastCall("setState")
  /\ Len(trace) = 4
  /\ trace[2].op = "exit"
  /\ trace[4].op = "enter"
  /\ trace[2].arg # trace[4].arg
  /\ obs.exits >= 2
  /\ obs.setStates > obs.replaced

(***************************************************************************)
(* C7.  Re-entrant transition: setState(s) with s already live calls       *)
(* s.exit() and then s.enter(), and s is the live state afterwards, its    *)
(* listener registered.                                                    *)
(***************************************************************************)
C7_ReentrantStep ==
  ( /\ trace' # <<>>
    /\ trace'[1].op = "setState"
    /\ scene.state # NoState
    /\ trace'[1].arg = scene.state )
  => /\ Calls(trace') = << <<"setState", scene.state>>, <<"exit", scene.state>>,
                           <<"assign", scene.state>>, <<"enter", scene.state>> >>
     /\ scene'.state = scene.state
     /\ scene.state \in host'.listeners

C7_Reentrant == [][C7_ReentrantStep]_vars

(* setState(s) on the live state s has just run both hooks. *)
C7_Witness ==
  /\ LastCall("setState")
  /\ Len(trace) = 4
  /\ trace[2].op = "exit"
  /\ trace[4].op = "enter"
  /\ trace[2].arg = trace[4].arg
  /\ scene.state = trace[4].arg

(***************************************************************************)
(* Reading the drawing surface.                                            *)
(***************************************************************************)
(* The draw calls a layer issued, and the texts of a sequence of calls. *)
DrawsBy(draws, by) == SelectSeq(draws, LAMBDA d : d.by = by)

Texts(draws) == [i \in DOMAIN draws |-> draws[i].text]

(* The printed form of the scores of the boards the model uses. *)
Printed(n) ==
  CASE n = 0 -> "0000" [] n = 7 -> "0007" [] n = 12 -> "0012"
    [] n = 340 -> "0340" [] n = 9999 -> "9999" [] n = 12345 -> "2345"

(***************************************************************************)
(* C11.  With a live state Scene.update(dt) completes without error, and   *)
(* afterwards the three HUD value texts are the printed forms of           *)
(* player1Score, player2Score and hiScore and the second-player value is   *)
(* visible exactly when playerCount is 2; an update followed by a render   *)
(* draws the captions and then the printed scores, the second-player value *)
(* only for two players ("0000" three times on a fresh two-player game).   *)
(***************************************************************************)
C11_HudAfterUpdate ==
  /\ (LastCall("update") /\ scene.state # NoState) =>
       /\ ~thrown
       /\ scene.score1Text.text = Printed(game.player1Score)
       /\ scene.score2Text.text = Printed(game.player2Score)
       /\ scene.hiScoreText.text = Printed(game.hiScore)
       /\ scene.score2Text.visible = (game.playerCount = 2)
       /\ scene.score1Text.visible /\ scene.hiScoreText.visible
  /\ scene.state # NoState =>
       LET w == Scene_render(Scene_update(Fresh, FPS))
           values == SubSeq(Texts(DrawsBy(w.host.draws, "hud")), 4,
                            Len(DrawsBy(w.host.draws, "hud")))
       IN  /\ ~w.thrown
           /\ values = <<Printed(game.player1Score), Printed(game.hiScore)>>
                        \o (IF game.playerCount = 2
                            THEN <<Printed(game.player2Score)>> ELSE <<>>)

(* An update of a one-player game whose scores are not the initial ones. *)
C11_Witness ==
  /\ LastCall("update") /\ scene.state # NoState /\ ~thrown
  /\ game.playerCount = 1
  /\ ~scene.score2Text.visible
  /\ scene.score1Text.text = "0012"
  /\ scene.hiScoreText.text = "2345"

(***************************************************************************)
(* C12.  Scene.update(dt) while no state is live (setState was never       *)
(* called, or was last called with the empty value) ends with an uncaught  *)
(* error: the call is not silently ignored.                                *)
(***************************************************************************)
C12_UpdateWithoutState ==
  (LastCall("update") /\ scene.state = NoState) => thrown

(* An update after setState put the empty value in place of a live state. *)
C12_Witness ==
  /\ LastCall("update") /\ scene.state = NoState /\ thrown
  /\ obs.replaced > 0

(***************************************************************************)
(* C13.  Every Scene.render(ctx) renders the six HUD entities, the three   *)
(* captions and then the three values, before it delegates to the live     *)
(* state: every draw call of the state comes after every draw call of the  *)
(* HUD of the same pass.                                                   *)
(***************************************************************************)
C13_HudBeforeState ==
  LastCall("render") =>
    LET hud == DrawsBy(host.draws, "hud")
        st == DrawsBy(host.draws, "state")
    IN  /\ host.draws = hud \o st
        /\ Texts(hud) =
             <<"SCORE<1>", "HI-SCORE", "SCORE<2>",
               scene.score1Text.text, scene.hiScoreText.text>>
             \o (IF scene.score2Text.visible
                 THEN <<scene.score2Text.text>> ELSE <<>>)
        /\ (scene.state # NoState) => (~thrown /\ st # <<>>)
        /\ (scene.state = NoState) => (thrown /\ st = <<>>)

(* A render pass in which the HUD drew six texts and the state drew too. *)
C13_Witness ==
  /\ LastCall("render") /\ scene.state # NoState
  /\ Len(DrawsBy(host.draws, "hud")) = 6
  /\ Len(DrawsBy(host.draws, "state")) >= 8
  /\ host.draws[7].text = "PLAY"

(***************************************************************************)
(* C14.  Finite blink: after blink() on a visible TextEntity with          *)
(* blinkCount n > 0 and interval f >= 1, the update calls that follow      *)
(* toggle the visibility exactly at the calls f, 2f, ..., n*f; the         *)
(* remaining blinks are 0 from call n*f on and no later update toggles.    *)
(***************************************************************************)
C14_FiniteBlink ==
  LET e == bench.text
      n == e.blinkCount
      f == e.blinkFrequency
      k == bench.since
      due == IF k \div f <= n THEN k \div f ELSE n
  IN  (bench.clean /\ n > 0 /\ k < MaxUpdates) =>
        /\ bench.toggles = due
        /\ e.blinks = n - due
        /\ e.visible = (due % 2 = 0)
        /\ (bench.last = "update") =>
             ((e.visible # bench.prev.visible) = (k % f = 0 /\ k \div f <= n))

(* Three toggles at an interval of five, all done by the sixteenth update. *)
C14_Witness ==
  /\ bench.clean /\ bench.last = "update"
  /\ bench.text.blinkCount = 3 /\ bench.text.blinkFrequency = 5
  /\ bench.since = 16 /\ bench.toggles = 3
  /\ bench.text.blinks = 0 /\ ~bench.text.visible

(***************************************************************************)
(* C15.  Endless blink: after blink() on a visible TextEntity with         *)
(* blinkCount -1 and interval f >= 1, the remaining blinks are -1 after    *)
(* every update, the visibility toggles at every f-th update, and under    *)
(* repeated updates the entity is visible again and again and hidden again *)
(* and again.                                                              *)
(***************************************************************************)
C15_Endless == bench.clean /\ bench.text.blinkCount = -1

C15_InfiniteBlink ==
  /\ [](C15_Endless => bench.text.blinks = -1)
  /\ []((C15_Endless /\ bench.since < MaxUpdates) =>
          /\ bench.toggles = bench.since \div bench.text.blinkFrequency
          /\ bench.text.visible = (bench.toggles % 2 = 0))
  /\ [](C15_Endless => <>bench.text.visible)
  /\ [](C15_Endless => <>(~bench.text.visible))

(* An endless blink at an interval of five, hidden after its third toggle. *)
C15_Witness ==
  /\ C15_Endless /\ bench.last = "update"
  /\ bench.text.blinkFrequency = 5
  /\ bench.toggles = 3 /\ ~bench.text.visible /\ bench.text.blinks = -1

(***************************************************************************)
(* C16 as stated.  In every state reachable by setBlinkCount,              *)
(* setBlinkFrequency, setVisible, blink and update calls the remaining     *)
(* blinks are at least -1 and, while they are not 0, the visibility        *)
(* toggles every blinkFrequency updates: the next toggle is due within     *)
(* blinkFrequency update calls.                                            *)
(***************************************************************************)
C16_BlinkInvariant ==
  /\ bench.text.blinks >= -1
  /\ bench.text.blinks # 0 =>
       /\ bench.text.blinkTimer >= 1
       /\ bench.text.blinkTimer <= bench.text.blinkFrequency

(***************************************************************************)
(* C16 amended.  With blink counts of at least -1 and intervals of at      *)
(* least 1 the remaining blinks are at least -1; while they are not 0 the  *)
(* timer is at least 1 and an update toggles the visibility exactly when   *)
(* it brings the timer to 0; and the next toggle is due within             *)
(* blinkFrequency updates as long as setBlinkFrequency was not called      *)
(* during a blink (a new interval is used from the next restart of the     *)
(* timer on).                                                              *)
(***************************************************************************)
C16_BlinkInvariantUnlessRetuned ==
  /\ bench.text.blinks >= -1
  /\ bench.text.blinks # 0 => bench.text.blinkTimer >= 1
  /\ (bench.text.blinks # 0 /\ ~bench.retuned) =>
       bench.text.blinkTimer <= bench.text.blinkFrequency
  /\ (bench.last = "update" /\ bench.prev.blinks # 0) =>
       ((bench.text.visible # bench.prev.visible) = (bench.prev.blinkTimer = 1))

(* A toggle by update after setters were called, none during a blink. *)
C16_Witness ==
  /\ ~bench.pure /\ ~bench.retuned
  /\ bench.last = "update"
  /\ bench.text.visible # bench.prev.visible
  /\ bench.text.blinks > 0
  /\ bench.text.blinkTimer = bench.text.blinkFrequency

(***************************************************************************)
(* C17.  blink() starts or restarts a blink exactly when the entity is     *)
(* visible or in the middle of a blink (remaining blinks not 0, finite or  *)
(* endless, in its visible or in its hidden phase): it then sets the       *)
(* remaining blinks to blinkCount, the timer to blinkFrequency and visible *)
(* to true; on a hidden entity with no blink active it changes nothing.    *)
(***************************************************************************)
C17_BlinkRestarts ==
  bench.last = "blink" =>
    LET before == bench.prev
    IN  IF before.visible \/ before.blinks # 0
        THEN bench.text = [before EXCEPT !.visible = TRUE,
                                         !.blinks = before.blinkCount,
                                         !.blinkTimer = before.blinkFrequency]
        ELSE bench.text = before

(***************************************************************************)
(* C18 as stated.  A TextEntity that starts visible and is driven by       *)
(* blink() and update() calls only, its blink count and its interval       *)
(* (at least 1) fixed, is never permanently invisible: it is never hidden  *)
(* with no blink active and blink() without effect.                        *)
(***************************************************************************)
C18_Stuck ==
  /\ ~bench.text.visible
  /\ bench.text.blinks = 0
  /\ TextEntity_blink(bench.text) = bench.text

C18_NeverStuck == bench.pure => ~C18_Stuck

(***************************************************************************)
(* C18 amended.  Such an entity is never permanently invisible when its    *)
(* blink count is -1 or even; with an odd blink count a blink that runs to *)
(* its end leaves it hidden with no blink active, and blink() has no       *)
(* effect on it any more.                                                  *)
(***************************************************************************)
C18_NeverStuckEvenCount ==
  LET n == bench.text.blinkCount
      f == bench.text.blinkFrequency
  IN  /\ (bench.pure /\ (n = -1 \/ n % 2 = 0)) => ~C18_Stuck
      /\ (bench.pure /\ bench.clean /\ n > 0 /\ n % 2 = 1
            /\ bench.since >= n * f /\ bench.since < MaxUpdates) => C18_Stuck

(* A blink of two toggles, restarted by blink() in its hidden phase, at    *)
(* its end: the entity is visible again.                                   *)
C18_Witness ==
  /\ bench.pure /\ ~bench.clean
  /\ bench.text.blinkCount = 2
  /\ bench.last = "update"
  /\ bench.text.blinks = 0 /\ bench.prev.blinks = 1
  /\ bench.text.visible

(***************************************************************************)
(* C19.  While the sprite sheet image is assigned to a SpriteEntity but    *)
(* has not finished loading, SpriteEntity.render issues no blit to the     *)
(* drawing surface: every blit is issued with the image ready.             *)
(***************************************************************************)
C19_NoBlitBeforeReady ==
  \A i \in DOMAIN host.draws :
    host.draws[i].op = "drawImage" => host.draws[i].ready

(***************************************************************************)
(* C20.  SpriteEntity.render issues no draw call when no image is          *)
(* assigned; with an image assigned it issues exactly one blit, from the   *)
(* source rectangle (clipX, clipY, width, height) to the destination       *)
(* rectangle (x, y, width, height), and changes no field of the entity.    *)
(***************************************************************************)
C20_SpriteRender ==
  LastCall("sprite.render") =>
    LET e == bench.sprite
    IN  IF e.image = 0
        THEN host.draws = <<>>
        ELSE /\ Len(host.draws) = 1
             /\ host.draws[1].op = "drawImage"
             /\ host.draws[1].image = e.image
             /\ <<host.draws[1].sx, host.draws[1].sy,
                  host.draws[1].sw, host.draws[1].sh>> =
                  <<e.clipX, e.clipY, e.width, e.height>>
             /\ <<host.draws[1].dx, host.draws[1].dy,
                  host.draws[1].dw, host.draws[1].dh>> =
                  <<e.x, e.y, e.width, e.height>>

(* The first row of the score table, drawn from the sprite sheet. *)
C20_Witness ==
  /\ LastCall("sprite.render")
  /\ bench.sprite = Sprite(1, 206, 550, 43, 19, 5, 92)
  /\ Len(host.draws) = 1
  /\ host.draws[1].sx = 5 /\ host.draws[1].dx = 206

(***************************************************************************)
(* C21: while a welcome state listens, releasing the key "1" (code 49)     *)
(* sets the player count to 1, releasing the key "2" (code 50) sets it to  *)
(* 2, and releasing any other key leaves it as it is; a key release        *)
(* changes nothing else of the game (scores, clock, flags) and nothing of  *)
(* the scene (the live state, the HUD), throws nothing, and schedules      *)
(* nothing; the player count is always 1 or 2.                             *)
(***************************************************************************)
C21_KeyStep ==
  (trace' # <<>> /\ trace'[1].op = "keyup") =>
     LET code == IF trace'[1].arg # 0 THEN trace'[1].arg ELSE trace'[2].arg
         count == IF host.listeners = {} THEN game.playerCount
                  ELSE CASE code = 49 -> 1
                         [] code = 50 -> 2
                         [] OTHER -> game.playerCount
     IN  /\ game' = [game EXCEPT !.playerCount = count]
         /\ scene' = scene
         /\ host' = [host EXCEPT !.draws = <<>>]
         /\ obs' = obs
         /\ thrown' = FALSE

C21_KeyHandling == [](game.playerCount \in {1, 2}) /\ [][C21_KeyStep]_vars

C21_Witness ==
  /\ trace # <<>> /\ trace[1].op = "keyup" /\ trace[1].arg = 49
  /\ host.listeners # {}
  /\ game.playerCount = 1
  /\ obs.updates > 0

(***************************************************************************)
(* Reading a score string back without the printing operators: the value   *)
(* of a decimal digit, whether a string is made of decimal digits, the     *)
(* integer it spells, and the last four decimal digits of value * 10^exp.  *)
(***************************************************************************)
DecimalValue(c) ==
  CASE c = "0" -> 0 [] c = "1" -> 1 [] c = "2" -> 2 [] c = "3" -> 3
    [] c = "4" -> 4 [] c = "5" -> 5 [] c = "6" -> 6 [] c = "7" -> 7
    [] c = "8" -> 8 [] c = "9" -> 9 [] OTHER -> -1

IsDecimal(str) ==
  \A i \in 1..Len(str) : DecimalValue(SubSeq(str, i, i)) >= 0

RECURSIVE Spelled(_)
Spelled(str) ==
  IF str = "" THEN 0
  ELSE 10 * Spelled(SubSeq(str, 1, Len(str) - 1))
         + DecimalValue(SubSeq(str, Len(str), Len(str)))

LastFour(x) ==
  CASE x.exp = 0 -> x.value % 10000
    [] x.exp = 1 -> ((x.value % 1000) * 10) % 10000
    [] x.exp = 2 -> ((x.value % 100) * 100) % 10000
    [] x.exp = 3 -> ((x.value % 10) * 1000) % 10000
    [] OTHER -> 0

Called == bench.calls > 0

(***************************************************************************)
(* C22: for every integer n with 0 <= n < 10000, toScoreString(n) is a     *)
(* string of exactly four decimal digits that spells n.                    *)
(***************************************************************************)
C22_FourDigits ==
  (/\ Called
   /\ bench.input.typeof = "number"
   /\ bench.input.exp = 0
   /\ bench.input.value < 10000)
  => /\ Len(bench.result) = 4
     /\ IsDecimal(bench.result)
     /\ Spelled(bench.result) = bench.input.value

C22_Witness ==
  /\ Called
  /\ bench.input = Number(7)
  /\ bench.result = "0007"

(***************************************************************************)
(* C23: for every integer n >= 10000, toScoreString(n) has length 4 and is *)
(* the last four decimal digits of n; for no non-negative integer is the   *)
(* result longer or shorter than four characters.                          *)
(***************************************************************************)
C23_LastFourDigits ==
  (Called /\ bench.input.typeof = "number")
  => /\ Len(bench.result) = 4
     /\ (bench.input.exp > 0 \/ bench.input.value >= 10000)
          => /\ IsDecimal(bench.result)
             /\ Spelled(bench.result) = LastFour(bench.input)

(***************************************************************************)
(* C24: for every argument that is not a number (a string, undefined,      *)
(* null, an object, a boolean) toScoreString returns "NaN" and throws      *)
(* nothing; a call leaves the game, the scene and the host as they were;   *)
(* and repeated calls on the same argument return the same string,         *)
(* whatever happened to the scores of the game in between.                 *)
(***************************************************************************)
C24_ScoreStep ==
  bench' # bench => UNCHANGED <<game, scene, host, trace, obs, thrown, ret>>

C24_NotANumber ==
  /\ []((Called /\ bench.input.typeof # "number")
          => (bench.result = "NaN" /\ ~thrown))
  /\ [](bench.same)
  /\ [][C24_ScoreStep]_vars

C24_Witness ==
  /\ bench.calls >= 2
  /\ bench.input = JsNull
  /\ bench.result = "NaN"
  /\ game.hiScore = 12345

(***************************************************************************)
(* C25: after any sequence of setState calls over welcome states and the   *)
(* empty value, the keyup listener of a state is registered exactly when   *)
(* that state is the live one; so at most one listener is registered, and  *)
(* none when no state is live; and a key event delivered when no state is  *)
(* live does not change the player count.                                  *)
(***************************************************************************)
C25_DeadKeyStep ==
  (trace' # <<>> /\ trace'[1].op = "keyup" /\ scene.state = NoState)
  => game' = game

C25_ListenerPairing ==
  /\ [](\A s \in 1..NumStates : s \in host.listeners <=> scene.state = s)
  /\ [](Cardinality(host.listeners) <= 1)
  /\ [][C25_DeadKeyStep]_vars

C25_Witness ==
  /\ trace # <<>> /\ trace[1].op = "keyup" /\ trace[1].arg = 50
  /\ scene.state = NoState
  /\ host.listeners = {}
  /\ obs.exits > 0
  /\ game.playerCount = 1

(***************************************************************************)
(* C26: a frame callback with dt >= 100 ms sets previousTickTime to its    *)
(* timestamp and leaves deltaAccumulator as it was (no update is made);    *)
(* every callback measures its dt from the timestamp of the callback       *)
(* before it, discarded or not; so the time of the discarded frames is     *)
(* never simulated: the time simulated plus the time still accumulated is  *)
(* the time of the last callback minus the time of the discarded frames.   *)
(***************************************************************************)
C26_FrameStep ==
  (obs'.frames = obs.frames + 1) =>
    /\ trace'[1].op = "run"
    /\ obs'.dt = trace'[1].arg - game.previousTickTime
    /\ game'.previousTickTime = trace'[1].arg
    /\ obs'.dt >= StutterLimit =>
         /\ game'.deltaAccumulator = game.deltaAccumulator
         /\ obs'.updates = obs.updates

C26_DiscardedFrame ==
  /\ [](obs.updates * FPS + game.deltaAccumulator
          = game.previousTickTime - obs.skipped)
  /\ [][C26_FrameStep]_vars

(* A simulated frame that follows a discarded one which had found time in  *)
(* the accumulator.                                                        *)
C26_Witness ==
  /\ HasRun
  /\ obs.skipped > 0
  /\ obs.dt = 130
  /\ obs.seqA0 > 0
  /\ obs.seqK = 1

(***************************************************************************)
(* C27: for timestamps that never decrease, after every run callback       *)
(* 0 <= deltaAccumulator < FPS (one step), and no callback makes more      *)
(* than 6 scene.update calls.                                              *)
(***************************************************************************)
C27_BoundedCatchUp ==
  /\ game.deltaAccumulator >= 0
  /\ game.deltaAccumulator < FPS
  /\ HasRun => Count(RunSegment, "update") <= 6

(* The largest accepted gap on top of a remainder: six steps in one        *)
(* callback.                                                               *)
C27_Witness ==
  /\ HasRun
  /\ obs.dt = 299
  /\ Count(RunSegment, "update") = 6
  /\ game.deltaAccumulator > 0

(***************************************************************************)
(* C28: however start() calls and frame callbacks interleave, at most one  *)
(* start() enters the loop (the run calls made are the frames delivered    *)
(* plus at most one), at most one run callback is pending at any time,     *)
(* each delivered frame runs exactly once, and the scene, the sprite       *)
(* sheet and the welcome state are created at most once.                   *)
(***************************************************************************)
C28_SingleLoop ==
  /\ obs.runs - obs.frames \in {0, 1}
  /\ obs.runs - obs.frames = 1 => game.initialized
  /\ host.rafPending <= 1
  /\ Count(trace, "run") <= 1
  /\ (trace # <<>> /\ trace[1].op = "run") => Count(trace, "run") = 1
  /\ host.scenes <= 1
  /\ host.images <= 1
  /\ host.states <= 1

(* start() called again while the loop is running. *)
C28_Witness ==
  /\ LastCall("start")
  /\ ~ret
  /\ obs.frames >= 2
  /\ host.rafPending = 1
  /\ host.scenes = 1

(***************************************************************************)
(* C29: in every execution entered through start(), with key events        *)
(* delivered between the callbacks, the state assigned in init (the one    *)
(* welcome state ever created) is live at every scene.update and           *)
(* scene.render a run callback makes, and its exit() is never called; so   *)
(* no callback fails for a missing state, and every render reaches the     *)
(* state.                                                                  *)
(***************************************************************************)
C29_StateAlwaysLive ==
  /\ obs.exits = 0
  /\ host.states <= 1
  /\ game.initialized => (scene.state = 1 /\ host.listeners = {1})
  /\ HasRun =>
       /\ ~thrown
       /\ scene.state = 1
       /\ Count(RunSegment, "render") = 1
            => DrawsBy(host.draws, "state") # <<>>

(* A callback that simulates and renders after the key "1" was released. *)
C29_Witness ==
  /\ HasRun
  /\ obs.frames >= 2
  /\ game.playerCount = 1
  /\ Count(RunSegment, "update") >= 1
  /\ Count(RunSegment, "render") = 1
  /\ DrawsBy(host.draws, "state") # <<>>

(***************************************************************************)
(* C30: key events are handled between the callbacks only (a key step      *)
(* makes no update and no render), and a player count they set shows at    *)
(* the first callback that simulates a step, not before: a render pass of  *)
(* a callback that made at least one update draws the value of the second  *)
(* player in the HUD exactly when playerCount is 2; every render pass      *)
(* draws it exactly when the HUD text is visible, and a step that makes no *)
(* update leaves that visibility as it was.                                *)
(***************************************************************************)
SecondScoreDrawn ==
  \E i \in DOMAIN host.draws :
    /\ host.draws[i].by = "hud"
    /\ host.draws[i].dx = 542
    /\ host.draws[i].dy = 75

C30_QuietStep ==
  /\ obs'.updates = obs.updates
       => scene'.score2Text.visible = scene.score2Text.visible
  /\ (trace' # <<>> /\ trace'[1].op = "keyup")
       => /\ Count(trace', "update") = 0
          /\ Count(trace', "render") = 0
          /\ Count(trace', "run") = 0

C30_CountShownAfterStep ==
  /\ []((HasRun /\ Count(RunSegment, "render") = 1)
          => /\ SecondScoreDrawn <=> scene.score2Text.visible
             /\ Count(RunSegment, "update") >= 1
                  => (SecondScoreDrawn <=> game.playerCount = 2))
  /\ [][C30_QuietStep]_vars

(* The key "1" was released, and the callback after it made a step: the    *)
(* second score is gone from the HUD.                                      *)
C30_Witness ==
  /\ HasRun
  /\ Count(RunSegment, "update") >= 1
  /\ Count(RunSegment, "render") = 1
  /\ game.playerCount = 1
  /\ ~SecondScoreDrawn
  /\ DrawsBy(host.draws, "hud") # <<>>

====
